---- MODULE Spec2Model ----
(***************************************************************************)
(* Model of react-server-actions' form transcoding core (decode_form.ts):  *)
(* decodeFormData, serializeFormData / flattenNestedFields, and            *)
(* aggregateIssuesByPath / serializeInvalidResult; of the constraint       *)
(* extractor getZodValidationAttributes (client/helpers.ts); and of the    *)
(* wrapped actions of ActionClient (server/actions.ts, server/helpers.ts). *)
(*                                                                         *)
(* JavaScript strings used as property names are modelled as non-empty     *)
(* sequences of '.'-free segments: "a.b" is <<"a", "b">>, "" is <<"">>,    *)
(* ".a" is <<"", "a">>.  On this representation key.split('.') is the      *)
(* sequence itself and `${p}.${k}` is p \o k, both exactly.                *)
(*                                                                         *)
(* JavaScript values are tagged records.  Objects keep their own           *)
(* properties as a sequence of [k, v] pairs in insertion order (the order  *)
(* Object.entries walks).  Properties a fresh {} inherits from             *)
(* Object.prototype are modelled for the name "constructor", whose value   *)
(* is the process-wide constructor function: `heap` holds those functions  *)
(* with the properties the program has put on them.                        *)
(***************************************************************************)
EXTENDS Integers, Sequences, FiniteSets, TLC

VARIABLES
    op,             \* the operation whose input and output the state holds
    heap,           \* process-wide objects: constructor name -> own properties
    formData,       \* decodeFormData: the submission, a sequence of [key, value]
    convertEmptyTo, \* decodeFormData: the empty-value policy
    decoded,        \* decodeFormData: the returned object, or Thrown
    serIn,          \* serializeFormData: the argument
    serOut,         \* serializeFormData: the returned value, or Thrown
    issues,         \* aggregateIssuesByPath: the argument
    aggregated,     \* aggregateIssuesByPath: the returned map, or Thrown
    zSchema,        \* getZodValidationAttributes: the schema argument
    zPath,          \* getZodValidationAttributes: the path argument
    zOptions,       \* getZodValidationAttributes: the options argument
    zResult,        \* getZodValidationAttributes: the returned { type, attrs }
    client,         \* ActionClient: the fields the constructor has set
    call,           \* wrapped action: which wrapper, its options, its param
    parsedData,     \* wrapped action: the validator's result
    serializedData, \* wrapped action: serialize(formData)
    fnCalls,        \* wrapped action: the arguments fn was called with, in order
    fnResult,       \* wrapped action: what fn resolved to or threw
    outcome         \* wrapped action: the returned ActionResult, or Thrown

clientVars == <<zSchema, zPath, zOptions, zResult>>

actionVars == <<client, call, parsedData, serializedData, fnCalls, fnResult, outcome>>

vars == <<op, heap, formData, convertEmptyTo, decoded, serIn, serOut, issues, aggregated,
          clientVars, actionVars>>

(***************************************************************************)
(* Bounds of the model.                                                    *)
(***************************************************************************)
MaxEntries == 2   \* entries of a submission
MaxProps == 3     \* properties (over all depths) of a serializeFormData argument
MaxIssues == 3    \* issues handed to aggregateIssuesByPath
MaxSchemaSize == 3  \* checks plus modifiers of a schema field

(***************************************************************************)
(* JavaScript values.                                                      *)
(***************************************************************************)
Undefined == [t |-> "undefined"]
Null == [t |-> "null"]
Str(s) == [t |-> "string", s |-> s]
Num(n) == [t |-> "number", n |-> n]
Bool(b) == [t |-> "boolean", b |-> b]
Symbol == [t |-> "symbol"]
Closure == [t |-> "function"]
DateOf(iso) == [t |-> "date", iso |-> iso]
File(name, size) == [t |-> "file", name |-> name, size |-> size, props |-> <<>>]
Arr(elems) == [t |-> "array", elems |-> elems, props |-> <<>>]
Obj(props) == [t |-> "object", props |-> props]
\* a reference to a process-wide constructor function (Object, Array, ...)
Ref(c) == [t |-> "ref", to |-> c]
\* the outcome of a call that ended in an exception
Thrown(e) == [t |-> "thrown", error |-> e]

CtorNames == {"Object", "Array", "File", "String", "Function"}
\* the one property name a fresh {} is modelled to inherit from Object.prototype
constructorName == <<"constructor">>

\* a constructor function with the own properties the program has given it
Ctor(name, props) == [t |-> "ctor", name |-> name, props |-> props]

\* values that carry own properties
HasProps(v) == v.t \in {"object", "array", "file", "ctor"}

\* ToBoolean
Truthy(v) ==
    CASE v.t \in {"undefined", "null"} -> FALSE
      [] v.t = "string" -> v.s # ""
      [] v.t = "number" -> v.n # 0
      [] v.t = "boolean" -> v.b
      [] OTHER -> TRUE

(***************************************************************************)
(* Own properties: an insertion-ordered list of [k |-> name, v |-> value]. *)
(***************************************************************************)
PropNames(props) == {props[i].k : i \in 1..Len(props)}

HasOwn(props, k) == k \in PropNames(props)

PropIndex(props, k) == CHOOSE i \in 1..Len(props) : props[i].k = k

GetOwn(props, k) == IF HasOwn(props, k) THEN props[PropIndex(props, k)].v ELSE Undefined

\* props[k] = v: an existing property keeps its place, a new one goes last
SetOwn(props, k, v) ==
    IF HasOwn(props, k)
    THEN [props EXCEPT ![PropIndex(props, k)] = [k |-> k, v |-> v]]
    ELSE Append(props, [k |-> k, v |-> v])

\* delete props[k]
DeleteOwn(props, k) == SelectSeq(props, LAMBDA p : p.k # k)

(***************************************************************************)
(* Property access on the object graph.  A location is a root ("data", the *)
(* object decodeFormData is building, or a constructor of `heap`) and the  *)
(* own-property path from it.  st is [data, heap].                         *)
(***************************************************************************)
Loc(root, path) == [root |-> root, path |-> path]

RECURSIVE ValueAt(_, _)
ValueAt(v, path) ==
    IF path = <<>> THEN v ELSE ValueAt(GetOwn(v.props, Head(path)), Tail(path))

RECURSIVE UpdateAt(_, _, _)
UpdateAt(v, path, new) ==
    IF path = <<>>
    THEN new
    ELSE [v EXCEPT !.props =
            SetOwn(v.props, Head(path), UpdateAt(GetOwn(v.props, Head(path)), Tail(path), new))]

RootValue(st, root) == IF root = "data" THEN st.data ELSE Ctor(root, st.heap[root])

ValueAtLoc(st, loc) == ValueAt(RootValue(st, loc.root), loc.path)

UpdateAtLoc(st, loc, new) ==
    LET r == UpdateAt(RootValue(st, loc.root), loc.path, new)
    IN  IF loc.root = "data"
        THEN [st EXCEPT !.data = r]
        ELSE [st EXCEPT !.heap[loc.root] = r.props]

\* the constructor a value inherits as its "constructor" property
CtorOf(v) ==
    CASE v.t = "object" -> "Object"
      [] v.t = "array" -> "Array"
      [] v.t = "file" -> "File"
      [] v.t = "string" -> "String"
      [] OTHER -> "Function"

\* obj[k] read: own property first, then the inherited "constructor"
Get(cur, k) ==
    IF HasProps(cur) /\ HasOwn(cur.props, k) THEN GetOwn(cur.props, k)
    ELSE IF k = constructorName THEN Ref(CtorOf(cur))
    ELSE Undefined

\* Reflect.has(obj, k): own or inherited
ReflectHas(cur, k) == HasOwn(cur.props, k) \/ k = constructorName

\* obj[k] = v in strict (module) code: creates or updates an own property;
\* on a primitive string it throws TypeError.  Result: [st, thrown].
Assign(st, loc, k, v) ==
    LET cur == ValueAtLoc(st, loc)
    IN  IF HasProps(cur)
        THEN [st |-> UpdateAtLoc(st, loc, [cur EXCEPT !.props = SetOwn(cur.props, k, v)]),
              thrown |-> FALSE]
        ELSE [st |-> st, thrown |-> TRUE]

\* the location obj = obj[k] moves to, v being the value read
Descend(loc, k, v) ==
    IF v.t = "ref" THEN Loc(v.to, <<>>) ELSE Loc(loc.root, Append(loc.path, k))

(***************************************************************************)
(* decodeFormData(formData, convertEmptyTo)                                *)
(***************************************************************************)
\* the replacement of an empty first value: the convertEmptyTo chain
EmptyReplacement(value, policy) ==
    CASE policy = "undefined" -> Undefined
      [] policy = "null" -> Null
      [] policy = "empty-string" -> Str("")
      [] OTHER -> value

\* value && value.toString().length: a File prints as "[object File]"
NonEmpty(value) == Truthy(value) /\ (value.t = "string" => value.s # "")

\* one call of the formData.forEach callback on the object being built
ForEachEntry(data, key, value, policy) ==
    IF ~ReflectHas(data, key)
    THEN [data EXCEPT !.props =
            SetOwn(data.props, key,
                   IF NonEmpty(value) THEN value ELSE EmptyReplacement(value, policy))]
    ELSE LET old == Get(data, key)
             arr == IF old.t = "array" THEN old ELSE Arr(<<old>>)
         IN  [data EXCEPT !.props =
                SetOwn(data.props, key, [arr EXCEPT !.elems = Append(arr.elems, value)])]

\* the forEach loop over the entries i..Len(fd)
RECURSIVE CollectEntries(_, _, _, _)
CollectEntries(fd, i, data, policy) ==
    IF i > Len(fd)
    THEN data
    ELSE CollectEntries(fd, i + 1, ForEachEntry(data, fd[i].key, fd[i].value, policy), policy)

\* for (const k of keys) { if (!obj[k]) obj[k] = {}; obj = obj[k]; }
\* from segment j on.  Result: [st, loc, thrown].
RECURSIVE WalkKeys(_, _, _, _)
WalkKeys(st, loc, keys, j) ==
    IF j > Len(keys)
    THEN [st |-> st, loc |-> loc, thrown |-> FALSE]
    ELSE LET k == <<keys[j]>>
             v == Get(ValueAtLoc(st, loc), k)
         IN  IF Truthy(v)
             THEN WalkKeys(st, Descend(loc, k, v), keys, j + 1)
             ELSE LET a == Assign(st, loc, k, Obj(<<>>))
                  IN  IF a.thrown
                      THEN [st |-> a.st, loc |-> loc, thrown |-> TRUE]
                      ELSE WalkKeys(a.st, Descend(loc, k, Obj(<<>>)), keys, j + 1)

\* the body of the rewrite loop for one [key, value] of Object.entries(data)
RewriteEntry(st, key, value) ==
    IF Len(key) = 1
    THEN [st |-> st, thrown |-> FALSE]
    ELSE LET keys == SubSeq(key, 1, Len(key) - 1)
             lastKey == <<key[Len(key)]>>
             w == WalkKeys(st, Loc("data", <<>>), keys, 1)
         IN  IF w.thrown
             THEN [st |-> w.st, thrown |-> TRUE]
             ELSE LET a == Assign(w.st, w.loc, lastKey, value)
                  IN  IF a.thrown
                      THEN a
                      ELSE [st |-> [a.st EXCEPT !.data.props = DeleteOwn(a.st.data.props, key)],
                            thrown |-> FALSE]

\* the rewrite loop over the snapshot Object.entries(data), from entry i on
RECURSIVE RewriteEntries(_, _, _)
RewriteEntries(st, entries, i) ==
    IF i > Len(entries)
    THEN [st |-> st, thrown |-> FALSE]
    ELSE LET r == RewriteEntry(st, entries[i].k, entries[i].v)
         IN  IF r.thrown THEN r ELSE RewriteEntries(r.st, entries, i + 1)

\* Result: [value |-> the returned object or Thrown, heap |-> the heap afterwards]
decodeFormData(fd, policy, h) ==
    LET data == CollectEntries(fd, 1, Obj(<<>>), policy)
        r == RewriteEntries([data |-> data, heap |-> h], data.props, 1)
    IN  [value |-> IF r.thrown THEN Thrown("TypeError") ELSE r.st.data,
         heap |-> r.st.heap]

(***************************************************************************)
(* serializeFormData(data)                                                 *)
(***************************************************************************)
\* a copy that keeps undefined-valued properties
UnserializableKeepsUndefined(v) == v.t \in {"function", "symbol", "ref", "ctor"}

\* what JSON.stringify leaves out of an object and writes as null in an array
Unserializable(v) == v.t \in {"undefined", "function", "symbol", "ref", "ctor"}

\* JSON.parse(JSON.stringify(v)) of a value JSON.stringify does not leave out:
\* a Date becomes its toJSON text, a File an object of its own properties,
\* an array loses its non-index properties
RECURSIVE JsonCopy(_)
RECURSIVE JsonCopyProps(_)
RECURSIVE JsonCopyElems(_)
JsonCopy(v) ==
    CASE v.t = "date" -> Str(v.iso)
      [] v.t \in {"object", "file"} -> Obj(JsonCopyProps(v.props))
      [] v.t = "array" -> Arr(JsonCopyElems(v.elems))
      [] OTHER -> v

JsonCopyProps(props) ==
    IF props = <<>> THEN <<>>
    ELSE IF Unserializable(Head(props).v) THEN JsonCopyProps(Tail(props))
    ELSE <<[k |-> Head(props).k, v |-> JsonCopy(Head(props).v)]>> \o JsonCopyProps(Tail(props))

JsonCopyElems(elems) ==
    IF elems = <<>> THEN <<>>
    ELSE <<IF Unserializable(Head(elems)) THEN Null ELSE JsonCopy(Head(elems))>>
         \o JsonCopyElems(Tail(elems))

\* a test that takes an empty mapping for a leaf
isPlainObjectNonEmpty(value) == value.t \in {"object", "file"} /\ value.props # <<>>

\* typeof value === 'object' && value !== null && !Array.isArray(value)
isPlainObject(value) == value.t \in {"object", "file", "date"}

\* variant of PathOf that joins the prefix '' as well
PathOfAlwaysJoined(prefix, key) == prefix \o key

\* prefix ? `${prefix}.${key}` : key, the prefix '' being falsy
PathOf(prefix, key) == IF prefix = <<"">> THEN key ELSE prefix \o key

\* the loop of flattenNestedFields over the entries i.. of value, acc being
\* the accumulator's own properties
RECURSIVE FlattenFrom(_, _, _, _)
FlattenFrom(entries, i, prefix, acc) ==
    IF i > Len(entries)
    THEN acc
    ELSE LET path == PathOf(prefix, entries[i].k)
             nestedValue == entries[i].v
         IN  FlattenFrom(entries, i + 1, prefix,
                IF isPlainObject(nestedValue)
                THEN FlattenFrom(nestedValue.props, 1, path, acc)
                ELSE SetOwn(acc, path, nestedValue))

flattenNestedFields(value) == Obj(FlattenFrom(value.props, 1, <<"">>, <<>>))

\* JSON.stringify(undefined) is undefined, which JSON.parse rejects
serializeFormData(data) ==
    IF Unserializable(data)
    THEN Thrown("SyntaxError")
    ELSE LET serialized == JsonCopy(data)
         IN  IF ~isPlainObject(serialized) THEN serialized ELSE flattenNestedFields(serialized)

(***************************************************************************)
(* aggregateIssuesByPath(issues), serializeInvalidResult(error)            *)
(* An issue is [path, message]; a path element is a string, given by its   *)
(* segments, or a number.                                                  *)
(***************************************************************************)
PathString(segs) == [t |-> "string", segs |-> segs]

\* String(n) for the array indices of the model
DecimalText(n) == CASE n = 0 -> "0" [] n = 1 -> "1" [] n = 2 -> "2"

\* String(element)
StringOf(e) == IF e.t = "number" THEN <<DecimalText(e.n)>> ELSE e.segs

\* issue.path.map(String).join('.'); the empty path joins to ''
RECURSIVE JoinPath(_)
JoinPath(path) ==
    IF path = <<>> THEN <<"">>
    ELSE IF Len(path) = 1 THEN StringOf(path[1])
    ELSE StringOf(Head(path)) \o JoinPath(Tail(path))

\* issue.message ?? 'Invalid value'
MessageOf(issue) ==
    IF issue.message.t \in {"undefined", "null"} THEN Str("Invalid value") ELSE issue.message

\* variant of FormLevel that skips no issue
FormLevelNever(issue) == FALSE

\* !issue.path.length: a form-level issue, skipped by the loop
FormLevel(issue) == issue.path = <<>>

\* the loop over the issues i.. ; agg is the object `aggregated`.
\* aggregated[key] reads through the prototype, and .push on a value that
\* is not an array throws TypeError.
RECURSIVE AggregateFrom(_, _, _)
AggregateFrom(iss, i, agg) ==
    IF i > Len(iss)
    THEN agg
    ELSE IF FormLevel(iss[i])
    THEN AggregateFrom(iss, i + 1, agg)
    ELSE LET key == JoinPath(iss[i].path)
             message == MessageOf(iss[i])
             init == IF ~Truthy(Get(agg, key))
                     THEN [agg EXCEPT !.props = SetOwn(agg.props, key, Arr(<<>>))]
                     ELSE agg
             list == Get(init, key)
         IN  IF list.t # "array"
             THEN Thrown("TypeError")
             ELSE AggregateFrom(iss, i + 1,
                    [init EXCEPT !.props =
                        SetOwn(init.props, key, [list EXCEPT !.elems = Append(list.elems, message)])])

aggregateIssuesByPath(iss) == AggregateFrom(iss, 1, Obj(<<>>))

serializeInvalidResult(error) == aggregateIssuesByPath(error.issues)

(***************************************************************************)
(* Inputs.                                                                 *)
(***************************************************************************)
(* client/helpers.ts: Zod schemas.  A schema node is a value with the      *)
(* field `type` of its definition; instanceof z.ZodX is a test of it.      *)
(***************************************************************************)
\* a check of a string, number or date schema: check._zod.def
CheckDef(check, format, value, inclusive, minimum, maximum) ==
    [check |-> check, format |-> format, value |-> value, inclusive |-> inclusive,
     minimum |-> minimum, maximum |-> maximum]

ZodString(checks) == [t |-> "schema", type |-> "string", checks |-> checks]
ZodNumber(coerce, checks) ==
    [t |-> "schema", type |-> "number", coerce |-> coerce, checks |-> checks]
ZodDate(checks) == [t |-> "schema", type |-> "date", checks |-> checks]
ZodBoolean == [t |-> "schema", type |-> "boolean"]
ZodEnum == [t |-> "schema", type |-> "enum"]
ZodFile == [t |-> "schema", type |-> "file"]
\* a schema kind the function has no branch for
ZodArray == [t |-> "schema", type |-> "array"]
ZodObject(shape) == [t |-> "schema", type |-> "object", shape |-> Obj(shape)]
ZodOptional(innerType) == [t |-> "schema", type |-> "optional", innerType |-> innerType]
ZodNullable(innerType) == [t |-> "schema", type |-> "nullable", innerType |-> innerType]
ZodDefault(innerType) == [t |-> "schema", type |-> "default", innerType |-> innerType]
ZodPipe(in, out) == [t |-> "schema", type |-> "pipe", in |-> in, out |-> out]
\* a transform on its own: its definition has no `in`
ZodTransform == [t |-> "schema", type |-> "transform", in |-> Undefined]

\* schema instanceof z.ZodX
InstanceOf(schema, type) == schema.t = "schema" /\ schema.type = type

\* pipeDef.in?.type || pipeDef.in?._def?.type
TypeOfSide(side) == IF side.t = "schema" THEN side.type ELSE "undefined"

\* options?.inferTypeAttr
InferTypeAttr(options) ==
    options.t = "object" /\ Truthy(Get(options, <<"inferTypeAttr">>))

\* variant of StripType that keeps the type attribute
StripTypeNever(attrs, options) == attrs

\* if (!options?.inferTypeAttr) delete attrs.type
StripType(attrs, options) ==
    IF InferTypeAttr(options) THEN attrs ELSE DeleteOwn(attrs, <<"type">>)

\* new Date(value).toISOString().split('T')[0], for the dates of the model
IsoDatePart(date) ==
    CASE date.iso = "2023-01-01T00:00:00.000Z" -> "2023-01-01"
      [] date.iso = "2023-12-31T23:59:59.000Z" -> "2023-12-31"

\* one turn of the loop over the checks of a ZodString
StringCheck(attrs, checkDef) ==
    LET a1 == IF checkDef.check = "min_length"
              THEN SetOwn(attrs, <<"minLength">>, checkDef.minimum) ELSE attrs
        a2 == IF checkDef.check = "max_length"
              THEN SetOwn(a1, <<"maxLength">>, checkDef.maximum) ELSE a1
        a3 == IF checkDef.format = "email" THEN SetOwn(a2, <<"type">>, Str("email")) ELSE a2
    IN  IF checkDef.format = "url" THEN SetOwn(a3, <<"type">>, Str("url")) ELSE a3

\* variant of NumberCheck that takes an exclusive bound as it is
NumberCheckNoOffset(attrs, checkDef) ==
    LET a1 == IF checkDef.check = "greater_than"
              THEN SetOwn(attrs, <<"min">>, checkDef.value) ELSE attrs
        a2 == IF checkDef.check = "less_than"
              THEN SetOwn(a1, <<"max">>, checkDef.value) ELSE a1
    IN  IF checkDef.format = "safeint" THEN SetOwn(a2, <<"step">>, Num(1)) ELSE a2

\* one turn of the loop over the checks of a ZodNumber
NumberCheck(attrs, checkDef) ==
    LET a1 == IF checkDef.check = "greater_than" /\ checkDef.inclusive
              THEN SetOwn(attrs, <<"min">>, checkDef.value) ELSE attrs
        a2 == IF checkDef.check = "less_than" /\ checkDef.inclusive
              THEN SetOwn(a1, <<"max">>, checkDef.value) ELSE a1
        a3 == IF checkDef.check = "greater_than" /\ ~checkDef.inclusive
              THEN SetOwn(a2, <<"min">>, Num(checkDef.value.n + 1)) ELSE a2
        a4 == IF checkDef.check = "less_than" /\ ~checkDef.inclusive
              THEN SetOwn(a3, <<"max">>, Num(checkDef.value.n - 1)) ELSE a3
    IN  IF checkDef.format = "safeint" THEN SetOwn(a4, <<"step">>, Num(1)) ELSE a4

\* one turn of the loop over the checks of a ZodDate
DateCheck(attrs, checkDef) ==
    LET a1 == IF checkDef.check = "greater_than" /\ checkDef.inclusive
              THEN SetOwn(attrs, <<"min">>, Str(IsoDatePart(checkDef.value))) ELSE attrs
    IN  IF checkDef.check = "less_than" /\ checkDef.inclusive
        THEN SetOwn(a1, <<"max">>, Str(IsoDatePart(checkDef.value))) ELSE a1

\* for (const check of checks), from check i on
RECURSIVE ChecksFrom(_, _, _, _)
ChecksFrom(type, checks, i, attrs) ==
    IF i > Len(checks) THEN attrs
    ELSE ChecksFrom(type, checks, i + 1,
            CASE type = "string" -> StringCheck(attrs, checks[i])
              [] type = "number" -> NumberCheck(attrs, checks[i])
              [] type = "date" -> DateCheck(attrs, checks[i]))

\* the chain of instanceof tests on actualSchema, after the pipe test
LeafAttributes(actualSchema, attrs, options) ==
    LET kind == IF actualSchema.t = "schema" THEN actualSchema.type ELSE "undefined"
        hint == CASE kind = "string" -> "text" [] kind = "number" -> "number"
                  [] kind = "date" -> "date" [] kind = "boolean" -> "checkbox"
                  [] kind = "enum" -> "radio" [] kind = "file" -> "file"
                  [] OTHER -> ""
        typed == IF hint = "" THEN attrs ELSE SetOwn(attrs, <<"type">>, Str(hint))
        checked == IF kind \in {"string", "number", "date"}
                   THEN ChecksFrom(kind, actualSchema.checks, 1, typed) ELSE typed
    IN  [type |-> IF hint = "" THEN "string" ELSE kind,
         attrs |-> StripType(checked, options)]

\* attrs after the ZodDefault test: required = true unless the node is a default
RequiredUnless(isDefault) ==
    IF isDefault THEN <<>> ELSE <<[k |-> <<"required">>, v |-> Bool(TRUE)]>>

RECURSIVE getZodValidationAttributes(_, _, _)
getZodValidationAttributes(schema, path, options) ==
    IF InstanceOf(schema, "object") /\ Len(path) > 0
    THEN LET field == Get(schema.shape, path[1])
         IN  IF Truthy(field)
             THEN getZodValidationAttributes(field, Tail(path), options)
             ELSE [type |-> "string", attrs |-> <<>>]
    ELSE IF InstanceOf(schema, "transform")
    THEN getZodValidationAttributes(schema.in, path, options)
    ELSE IF InstanceOf(schema, "optional") \/ InstanceOf(schema, "nullable")
    THEN LET innerAttrs == getZodValidationAttributes(schema.innerType, path, options)
         IN  [innerAttrs EXCEPT !.attrs = DeleteOwn(@, <<"required">>)]
    ELSE LET isDefault == InstanceOf(schema, "default")
             actualSchema == IF isDefault THEN schema.innerType ELSE schema
             attrs == RequiredUnless(isDefault)
         IN  IF InstanceOf(actualSchema, "pipe")
             THEN IF TypeOfSide(actualSchema.in) = "string"
                     /\ TypeOfSide(actualSchema.out) = "boolean"
                  THEN [type |-> "boolean",
                        attrs |-> StripType(SetOwn(attrs, <<"type">>, Str("checkbox")),
                                            options)]
                  ELSE getZodValidationAttributes(actualSchema.in, path, options)
             ELSE LeafAttributes(actualSchema, attrs, options)

(***************************************************************************)
\* field names: "a", "a.b", "a.b.c", ".a", "a.", "constructor", "constructor.a"
FieldNames ==
    {<<"a">>, <<"a", "b">>, <<"a", "b", "c">>, <<"", "a">>, <<"a", "">>,
     constructorName, constructorName \o <<"a">>}

\* FormData values: text (empty or not) and attachments (empty or not)
FormValues == {Str(""), Str("x"), File("", 0), File("f", 1)}

\* the three ConvertEmptyToValue members and a value outside the type
Policies == {"undefined", "null", "empty-string", "invalid"}

FormEntries == [key : FieldNames, value : FormValues]

\* issue paths: [] (form level), ["a"], ["a", 0], ["a.0"], ["constructor"]
IssuePaths ==
    {<<>>, <<PathString(<<"a">>)>>, <<PathString(<<"a">>), Num(0)>>,
     <<PathString(<<"a", "0">>)>>, <<PathString(<<"">>)>>, <<PathString(constructorName)>>}

IssueSet == [path : IssuePaths, message : {Str("m1"), Str("m2")}]

\* property names of serializeFormData arguments: "a", "" and "a.a"
SerNames == {<<"a">>, <<"">>, <<"a", "a">>}

\* values that are not plain mappings: undefined, null, text, a Date, a
\* function, a symbol, and arrays (empty, and holding a plain mapping)
SerLeaves ==
    {Undefined, Null, Str("x"), DateOf("2023-01-01T00:00:00.000Z"), Closure, Symbol,
     Arr(<<>>), Arr(<<Obj(<<[k |-> <<"a">>, v |-> Str("x")]>>)>>)}

\* a first property with a value of at most i nested properties, and at most
\* m further properties after it
RECURSIVE PropLists(_)
FirstAndRest(i, m) ==
    {c \in [name : SerNames,
            val : SerLeaves \cup {Obj(q) : q \in PropLists(i)},
            rest : PropLists(m)] :
        c.name \notin PropNames(c.rest)}

\* the property lists with at most n properties, nested ones included
PropLists(n) ==
    IF n = 0
    THEN {<<>>}
    ELSE {<<>>} \cup UNION {
            {<<[k |-> c.name, v |-> c.val]>> \o c.rest : c \in FirstAndRest(i, n - 1 - i)}
            : i \in 0..(n - 1)}

(***************************************************************************)
(* server/helpers.ts: result constructors and typeguards.                  *)
(***************************************************************************)
\* a thrown or caught Error object
ErrorOf(message) == [t |-> "error", message |-> message]

Prop(name, value) == [k |-> <<name>>, v |-> value]

\* { ...actionResult }: the own properties of an object, none for undefined
Spread(actionResult) == IF actionResult.t = "object" THEN actionResult.props ELSE <<>>

\* JSON.stringify(error) for the thrown values of the model
JsonText(e) ==
    CASE e.t = "undefined" -> Undefined
      [] e.t = "null" -> Str("null")
      [] e.t = "object" /\ e.props = <<>> -> Str("{}")

\* variant of invalid that reports success
invalidAsSuccess(fieldErrors) ==
    Obj(<<Prop("success", Bool(TRUE)), Prop("invalid", fieldErrors)>>)

invalid(fieldErrors) == Obj(<<Prop("success", Bool(FALSE)), Prop("invalid", fieldErrors)>>)

error(e) ==
    Obj(<<Prop("success", Bool(FALSE)),
          Prop("error", IF e.t = "string" THEN e
                        ELSE IF e.t = "error" THEN Str(e.message)
                        ELSE JsonText(e))>>)

_actionSuccess(fd, actionResult) ==
    Obj(SetOwn(SetOwn(SetOwn(Spread(actionResult), <<"formData">>, fd),
                      <<"invalid">>, Undefined), <<"error">>, Undefined))

\* variant of _actionInvalid that leaves the error of actionResult in place
_actionInvalidKeepsError(fd, actionResult) ==
    Obj(SetOwn(SetOwn(Spread(actionResult), <<"formData">>, fd), <<"data">>, Undefined))

_actionInvalid(fd, actionResult) ==
    Obj(SetOwn(SetOwn(SetOwn(Spread(actionResult), <<"formData">>, fd),
                      <<"data">>, Undefined), <<"error">>, Undefined))

_actionError(fd, actionResult) ==
    Obj(SetOwn(SetOwn(SetOwn(Spread(actionResult), <<"formData">>, fd),
                      <<"invalid">>, Undefined), <<"data">>, Undefined))

\* typeof actionResult === 'object' && actionResult !== null &&
\* 'success' in actionResult && actionResult.success === false &&
\* name in actionResult && actionResult[name] !== undefined
IsFailureWith(actionResult, name) ==
    /\ actionResult.t = "object"
    /\ HasOwn(actionResult.props, <<"success">>)
    /\ GetOwn(actionResult.props, <<"success">>) = Bool(FALSE)
    /\ HasOwn(actionResult.props, <<name>>)
    /\ GetOwn(actionResult.props, <<name>>) # Undefined

isInvalidActionResult(actionResult) == IsFailureWith(actionResult, "invalid")

isErrorActionResult(actionResult) == IsFailureWith(actionResult, "error")

(***************************************************************************)
(* server/actions.ts: ActionClient.                                        *)
(***************************************************************************)
\* options.x ?? fallback
Coalesce(value, fallback) ==
    IF value.t \in {"undefined", "null"} THEN fallback ELSE value

\* new ActionClient(options)
ActionClient(options) ==
    [handleExceptionsAsFormErrors |->
        Coalesce(Get(options, <<"handleExceptionsAsFormErrors">>), Bool(TRUE)),
     actionConvertEmptyTo |->
        Coalesce(Get(options, <<"actionConvertEmptyTo">>), Str("undefined")),
     actionWithParamConvertEmptyTo |->
        Coalesce(Get(options, <<"actionWithParamConvertEmptyTo">>), Str("undefined"))]

\* serialize(data): JSON.parse(JSON.stringify(data))
serialize(data) == JsonCopy(data)

\* zod's error.flatten().fieldErrors: the messages of the issues with a
\* non-empty path, listed under the first element of the path
RECURSIVE FlattenFieldErrors(_, _, _)
FlattenFieldErrors(iss, i, fieldErrors) ==
    IF i > Len(iss) THEN fieldErrors
    ELSE IF Len(iss[i].path) = 0 THEN FlattenFieldErrors(iss, i + 1, fieldErrors)
    ELSE LET key == StringOf(iss[i].path[1])
             list == IF HasOwn(fieldErrors.props, key)
                     THEN GetOwn(fieldErrors.props, key) ELSE Arr(<<>>)
         IN  FlattenFieldErrors(iss, i + 1,
                Obj(SetOwn(fieldErrors.props, key, Arr(Append(list.elems, iss[i].message)))))

\* checks of z.string(): .min(3), .max(20), .email(), .url()
StringChecks ==
    {CheckDef("min_length", "", Undefined, FALSE, Num(3), Undefined),
     CheckDef("max_length", "", Undefined, FALSE, Undefined, Num(20)),
     CheckDef("string_format", "email", Undefined, FALSE, Undefined, Undefined),
     CheckDef("string_format", "url", Undefined, FALSE, Undefined, Undefined)}

\* checks of z.number(): .min(1), .positive(), .max(5), .lt(5), .int()
NumberChecks ==
    {CheckDef("greater_than", "", Num(1), TRUE, Undefined, Undefined),
     CheckDef("greater_than", "", Num(0), FALSE, Undefined, Undefined),
     CheckDef("less_than", "", Num(5), TRUE, Undefined, Undefined),
     CheckDef("less_than", "", Num(5), FALSE, Undefined, Undefined),
     CheckDef("number_format", "safeint", Undefined, FALSE, Undefined, Undefined)}

\* checks of z.date(): .min(date), .max(date)
DateChecks ==
    {CheckDef("greater_than", "", DateOf("2023-01-01T00:00:00.000Z"), TRUE, Undefined, Undefined),
     CheckDef("less_than", "", DateOf("2023-12-31T23:59:59.000Z"), TRUE, Undefined, Undefined)}

\* schemas without modifiers that carry c checks
Leaves(c) ==
    {ZodString(cs) : cs \in [1..c -> StringChecks]}
    \cup {ZodNumber(co, cs) : co \in BOOLEAN, cs \in [1..c -> NumberChecks]}
    \cup {ZodDate(cs) : cs \in [1..c -> DateChecks]}
    \cup (IF c = 0
          THEN {ZodBoolean, ZodEnum, ZodFile, ZodArray, ZodTransform,
                ZodPipe(ZodString(<<>>), ZodBoolean)}
          ELSE {})
    \cup (IF c = 1
          THEN {ZodPipe(ZodString(<<CheckDef("min_length", "", Undefined, FALSE,
                                             Num(3), Undefined)>>), ZodBoolean)}
          ELSE {})

Modifiers == {"optional", "nullable", "default", "pipe"}

\* .optional(), .nullable(), .default(v), .transform(f)
Modify(schema, modifier) ==
    CASE modifier = "optional" -> ZodOptional(schema)
      [] modifier = "nullable" -> ZodNullable(schema)
      [] modifier = "default" -> ZodDefault(schema)
      [] modifier = "pipe" -> ZodPipe(schema, ZodTransform)

\* the modifiers applied in turn, the last one outermost
RECURSIVE Wrap(_, _)
Wrap(schema, modifiers) ==
    IF modifiers = <<>> THEN schema
    ELSE Wrap(Modify(schema, Head(modifiers)), Tail(modifiers))

\* z.object({a: field}), z.object({a: z.object({b: field})}) and
\* z.object({a: z.object({b: field}).optional()})
Forms == {"a", "a.b", "a?.b"}
SchemaOf(form, field) ==
    CASE form = "a" -> ZodObject(<<[k |-> <<"a">>, v |-> field]>>)
      [] form = "a.b" ->
            ZodObject(<<[k |-> <<"a">>, v |-> ZodObject(<<[k |-> <<"b">>, v |-> field]>>)]>>)
      [] form = "a?.b" ->
            ZodObject(<<[k |-> <<"a">>,
                         v |-> ZodOptional(ZodObject(<<[k |-> <<"b">>, v |-> field]>>))]>>)

SchemaPaths ==
    {<<>>, <<(<<"a">>)>>, <<(<<"b">>)>>, <<(<<"a">>), (<<"b">>)>>,
     <<(<<"a">>), (<<"b">>), (<<"b">>)>>, <<constructorName>>}

OptionValues ==
    {Undefined, Obj(<<[k |-> <<"inferTypeAttr">>, v |-> Bool(TRUE)]>>),
     Obj(<<[k |-> <<"inferTypeAttr">>, v |-> Bool(FALSE)]>>)}

\* the options of new ActionClient(options): each field given or left out
ClientOptions ==
    {Obj(h \o a \o w) :
        h \in {<<>>} \cup {<<Prop("handleExceptionsAsFormErrors", Bool(b))>> : b \in BOOLEAN},
        a \in {<<>>} \cup {<<Prop("actionConvertEmptyTo", Str(c))>> :
                                c \in {"null", "empty-string"}},
        w \in {<<>>} \cup {<<Prop("actionWithParamConvertEmptyTo", Str(c))>> :
                                c \in {"null", "empty-string"}}}

\* the options of action(schema, fn, options)
ActionOptions ==
    {Undefined} \cup {Obj(<<Prop("handleExceptionsAsFormErrors", Bool(b))>>) : b \in BOOLEAN}

Wrappers == {"action", "actionWithParam"}

\* entries of the submissions handed to a wrapped action
ActionEntries ==
    {[key |-> <<"a">>, value |-> Str("x")], [key |-> <<"a">>, value |-> Str("")],
     [key |-> <<"a", "b">>, value |-> Str("x")]}

\* the issues of a failed validation
ActionIssues ==
    [path : {<<>>, <<PathString(<<"a">>)>>, <<PathString(<<"a">>), PathString(<<"b">>)>>},
     message : {Str("m1")}]

\* what fn resolves to
ActionResponses ==
    {Undefined, Null,
     Obj(<<Prop("success", Bool(TRUE)), Prop("data", Str("d"))>>),
     Obj(<<Prop("id", Num(1))>>),
     Obj(<<Prop("success", Bool(FALSE))>>),
     invalid(Obj(<<Prop("a", Arr(<<Str("taken")>>))>>)),
     error(Str("e")),
     Obj(<<Prop("success", Bool(FALSE)), Prop("error", Str("e")),
           Prop("invalid", Obj(<<Prop("a", Arr(<<Str("taken")>>))>>))>>),
     Obj(<<Prop("success", Bool(TRUE)), Prop("data", Str("d")),
           Prop("formData", Str("own"))>>),
     Obj(<<Prop("success", Bool(FALSE)), Prop("error", Str("e")),
           Prop("formData", Str("own"))>>),
     Obj(<<Prop("success", Bool(FALSE)), Prop("error", Str("e")), Prop("data", Str("d"))>>),
     Obj(<<Prop("success", Bool(TRUE)), Prop("data", Str("d")),
           Prop("invalid", Obj(<<Prop("a", Arr(<<Str("taken")>>))>>))>>)}

\* what fn throws
ThrownValues ==
    {ErrorOf("NEXT_REDIRECT"), ErrorOf("NEXT_NOT_FOUND"), ErrorOf("boom"),
     Str("text"), Obj(<<>>), Undefined}

\* fn has not settled: the wrapper's try block has not got past `await fn(...)`
NotCalled == [kind |-> "none", value |-> Undefined]

(***************************************************************************)
(* The state machine.                                                      *)
(***************************************************************************)
Init ==
    /\ op = "idle"
    /\ heap = [c \in CtorNames |-> <<>>]
    /\ formData = <<>>
    /\ convertEmptyTo = "undefined"
    /\ decoded = Undefined
    /\ serIn = Undefined
    /\ serOut = Undefined
    /\ issues = <<>>
    /\ aggregated = Undefined
    /\ zSchema = Undefined
    /\ zPath = <<>>
    /\ zOptions = Undefined
    /\ zResult = Undefined
    /\ client = Undefined
    /\ call = Undefined
    /\ parsedData = Undefined
    /\ serializedData = Undefined
    /\ fnCalls = <<>>
    /\ fnResult = NotCalled
    /\ outcome = Undefined

\* a caller decodes a submission
Decode ==
    /\ op = "idle"
    /\ \E n \in 0..MaxEntries : \E fd \in [1..n -> FormEntries] : \E policy \in Policies :
          LET r == decodeFormData(fd, policy, heap)
          IN  /\ formData' = fd
              /\ convertEmptyTo' = policy
              /\ decoded' = r.value
              /\ heap' = r.heap
    /\ op' = "decoded"
    /\ UNCHANGED <<serIn, serOut, issues, aggregated, clientVars, actionVars>>

\* the caller serializes the decoded object to echo it back
SerializeDecoded ==
    /\ op = "decoded"
    /\ decoded.t # "thrown"
    /\ serIn' = decoded
    /\ serOut' = serializeFormData(decoded)
    /\ op' = "echoed"
    /\ UNCHANGED <<heap, formData, convertEmptyTo, decoded, issues, aggregated, clientVars, actionVars>>

\* the call is over: its arguments and results are dropped, the heap stays
Finish ==
    /\ op \in {"decoded", "echoed"}
    /\ op' = "idle"
    /\ formData' = <<>>
    /\ convertEmptyTo' = "undefined"
    /\ decoded' = Undefined
    /\ serIn' = Undefined
    /\ serOut' = Undefined
    /\ UNCHANGED <<heap, issues, aggregated, clientVars, actionVars>>

NextDecode == Decode \/ SerializeDecoded \/ Finish

SpecDecode == Init /\ [][NextDecode]_vars

\* serializeFormData is applied to data
SerializeValue(data) ==
    /\ serIn' = data
    /\ serOut' = serializeFormData(data)
    /\ op' = "serialized"
    /\ UNCHANGED <<heap, formData, convertEmptyTo, decoded, issues, aggregated, clientVars, actionVars>>

\* a caller serializes a value: a value that is no plain mapping, the empty
\* mapping, or a mapping with at most MaxProps properties over all depths
Serialize ==
    /\ op = "idle"
    /\ \/ \E data \in SerLeaves \cup {Obj(<<>>)} : SerializeValue(data)
       \/ \E i \in 0..(MaxProps - 1) :
             \E c \in FirstAndRest(i, MaxProps - 1 - i) :
                SerializeValue(Obj(<<[k |-> c.name, v |-> c.val]>> \o c.rest))

NextSerialize == Serialize

SpecSerialize == Init /\ [][NextSerialize]_vars

\* a caller turns a validation error's issues into the field error map
SerializeInvalidResult ==
    /\ op = "idle"
    /\ \E n \in 0..MaxIssues : \E iss \in [1..n -> IssueSet] :
          /\ issues' = iss
          /\ aggregated' = serializeInvalidResult([issues |-> iss])
    /\ op' = "aggregated"
    /\ UNCHANGED <<heap, formData, convertEmptyTo, decoded, serIn, serOut, clientVars, actionVars>>

NextAggregate == SerializeInvalidResult

SpecAggregate == Init /\ [][NextAggregate]_vars

\* a component asks for the attributes of a field
GetZodValidationAttributes ==
    /\ op = "idle"
    /\ \E c \in 0..MaxSchemaSize : \E w \in 0..(MaxSchemaSize - c) :
       \E leaf \in Leaves(c) : \E modifiers \in [1..w -> Modifiers] :
       \E form \in Forms : \E path \in SchemaPaths : \E options \in OptionValues :
          LET schema == SchemaOf(form, Wrap(leaf, modifiers))
          IN  /\ zSchema' = schema
              /\ zPath' = path
              /\ zOptions' = options
              /\ zResult' = getZodValidationAttributes(schema, path, options)
    /\ op' = "attributes"
    /\ UNCHANGED <<heap, formData, convertEmptyTo, decoded, serIn, serOut, issues, aggregated,
                   actionVars>>

NextAttributes == GetZodValidationAttributes

SpecAttributes == Init /\ [][NextAttributes]_vars

\* a call that ended by throwing the value e
Throw(e) == [t |-> "thrown", value |-> e]

\* this.actionConvertEmptyTo / this.actionWithParamConvertEmptyTo
PolicyOf(c, wrapper) ==
    IF wrapper = "action" THEN c.actionConvertEmptyTo.s ELSE c.actionWithParamConvertEmptyTo.s

\* variant of HandleExceptionsAsFormErrors in which the client's setting
\* comes first
HandleExceptionsClientFirst(options, c) ==
    Truthy(Coalesce(c.handleExceptionsAsFormErrors,
                    Get(options, <<"handleExceptionsAsFormErrors">>)))

\* options?.handleExceptionsAsFormErrors ?? this.handleExceptionsAsFormErrors
HandleExceptionsAsFormErrors(options, c) ==
    Truthy(Coalesce(Get(options, <<"handleExceptionsAsFormErrors">>),
                    c.handleExceptionsAsFormErrors))

\* action: the validation failed
actionOnInvalid(sd, parsed) ==
    _actionInvalid(sd, invalid(FlattenFieldErrors(parsed.error.issues, 1, Obj(<<>>))))

\* action: fn resolved to actionResponse
actionOnResponse(sd, actionResponse) ==
    IF Truthy(actionResponse) /\ isInvalidActionResult(actionResponse)
    THEN _actionInvalid(sd, actionResponse)
    ELSE IF Truthy(actionResponse) /\ isErrorActionResult(actionResponse)
    THEN _actionError(sd, actionResponse)
    ELSE _actionSuccess(sd, actionResponse)

\* action: fn threw e
actionOnThrow(options, c, sd, e) ==
    IF HandleExceptionsAsFormErrors(options, c)
    THEN IF e.t = "error" /\ e.message \in {"NEXT_REDIRECT", "NEXT_NOT_FOUND"}
         THEN Throw(e)
         ELSE _actionError(sd, error(e))
    ELSE Throw(e)

\* actionWithParam: the validation failed
actionWithParamOnInvalid(sd, parsed) ==
    _actionInvalid(sd, invalid(FlattenFieldErrors(parsed.error.issues, 1, Obj(<<>>))))

\* variant of actionWithParamOnResponse that tests for an error result first
actionWithParamErrorFirst(sd, actionResponse) ==
    IF Truthy(actionResponse) /\ isErrorActionResult(actionResponse)
    THEN _actionError(sd, actionResponse)
    ELSE IF Truthy(actionResponse) /\ isInvalidActionResult(actionResponse)
    THEN _actionInvalid(sd, actionResponse)
    ELSE _actionSuccess(sd, actionResponse)

\* actionWithParam: fn resolved to actionResponse
actionWithParamOnResponse(sd, actionResponse) ==
    IF Truthy(actionResponse) /\ isInvalidActionResult(actionResponse)
    THEN _actionInvalid(sd, actionResponse)
    ELSE IF Truthy(actionResponse) /\ isErrorActionResult(actionResponse)
    THEN _actionError(sd, actionResponse)
    ELSE _actionSuccess(sd, actionResponse)

\* actionWithParam: fn threw e
actionWithParamOnThrow(options, c, sd, e) ==
    IF HandleExceptionsAsFormErrors(options, c)
    THEN IF e.t = "error" /\ e.message \in {"NEXT_REDIRECT", "NEXT_NOT_FOUND"}
         THEN Throw(e)
         ELSE _actionError(sd, error(e))
    ELSE Throw(e)

\* the wrapper that was called decides which of the two bodies runs
OnInvalid(wrapper, sd, parsed) ==
    IF wrapper = "action" THEN actionOnInvalid(sd, parsed)
    ELSE actionWithParamOnInvalid(sd, parsed)

OnResponse(wrapper, sd, actionResponse) ==
    IF wrapper = "action" THEN actionOnResponse(sd, actionResponse)
    ELSE actionWithParamOnResponse(sd, actionResponse)

OnThrow(wrapper, options, c, sd, e) ==
    IF wrapper = "action" THEN actionOnThrow(options, c, sd, e)
    ELSE actionWithParamOnThrow(options, c, sd, e)

\* the wrapped action is called: the submission is decoded
CallAction ==
    /\ op = "idle"
    /\ \E copts \in ClientOptions : \E wrapper \in Wrappers : \E options \in ActionOptions :
       \E n \in 0..MaxEntries : \E fd \in [1..n -> ActionEntries] :
       \E c \in {ActionClient(copts)} : \E policy \in {PolicyOf(c, wrapper)} :
       \E r \in {decodeFormData(fd, policy, heap)} :
          /\ client' = c
          /\ call' = [wrapper |-> wrapper, options |-> options, clientOptions |-> copts,
                      param |-> IF wrapper = "action" THEN Undefined ELSE Str("p")]
          /\ formData' = fd
          /\ convertEmptyTo' = policy
          /\ decoded' = r.value
          /\ heap' = r.heap
          /\ outcome' = IF r.value.t = "thrown" THEN r.value ELSE Undefined
          /\ op' = IF r.value.t = "thrown" THEN "thrown" ELSE "validating"
    /\ parsedData' = Undefined
    /\ serializedData' = Undefined
    /\ fnCalls' = <<>>
    /\ fnResult' = NotCalled
    /\ UNCHANGED <<serIn, serOut, issues, aggregated, clientVars>>

\* schema.safeParseAsync(formData) resolves; the decoded object is
\* serialized; a failed validation ends the call
SafeParse ==
    /\ op = "validating"
    /\ \/ /\ parsedData' = [success |-> TRUE, data |-> decoded]
          /\ op' = "handling"
          /\ outcome' = Undefined
       \/ \E n \in 1..MaxIssues : \E iss \in [1..n -> ActionIssues] :
          /\ parsedData' = [success |-> FALSE, error |-> [issues |-> iss]]
          /\ op' = "returned"
          /\ outcome' = OnInvalid(call.wrapper, serialize(decoded),
                                  [success |-> FALSE, error |-> [issues |-> iss]])
    /\ serializedData' = serialize(decoded)
    /\ UNCHANGED <<heap, formData, convertEmptyTo, decoded, serIn, serOut, issues, aggregated,
                   clientVars, client, call, fnCalls, fnResult>>

\* the arguments fn is called with
FnArguments ==
    [data |-> parsedData.data, formData |-> formData, param |-> call.param]

\* fn resolves to actionResponse
FnReturns ==
    /\ op = "handling"
    /\ fnCalls' = Append(fnCalls, FnArguments)
    /\ \E actionResponse \in ActionResponses :
          /\ fnResult' = [kind |-> "returned", value |-> actionResponse]
          /\ outcome' = OnResponse(call.wrapper, serializedData, actionResponse)
    /\ op' = "returned"
    /\ UNCHANGED <<heap, formData, convertEmptyTo, decoded, serIn, serOut, issues, aggregated,
                   clientVars, client, call, parsedData, serializedData>>

\* fn throws e
FnThrows ==
    /\ op = "handling"
    /\ fnCalls' = Append(fnCalls, FnArguments)
    /\ \E e \in ThrownValues :
       \E r \in {OnThrow(call.wrapper, call.options, client, serializedData, e)} :
          /\ fnResult' = [kind |-> "thrown", value |-> e]
          /\ outcome' = r
          /\ op' = IF r.t = "thrown" THEN "thrown" ELSE "returned"
    /\ UNCHANGED <<heap, formData, convertEmptyTo, decoded, serIn, serOut, issues, aggregated,
                   clientVars, client, call, parsedData, serializedData>>

\* the caller has the result or the exception; the next call can start
Settle ==
    /\ op \in {"returned", "thrown"}
    /\ op' = "idle"
    /\ formData' = <<>>
    /\ convertEmptyTo' = "undefined"
    /\ decoded' = Undefined
    /\ client' = Undefined
    /\ call' = Undefined
    /\ parsedData' = Undefined
    /\ serializedData' = Undefined
    /\ fnCalls' = <<>>
    /\ fnResult' = NotCalled
    /\ outcome' = Undefined
    /\ UNCHANGED <<heap, serIn, serOut, issues, aggregated, clientVars>>

NextAction == CallAction \/ SafeParse \/ FnReturns \/ FnThrows \/ Settle

SpecAction == Init /\ [][NextAction]_vars

(***************************************************************************)
(* Vocabulary of the properties.                                           *)
(***************************************************************************)
Missing == [t |-> "missing"]

Returned(v) == v.t # "thrown"

\* the values a submission appends under key, in append order
RECURSIVE ValuesOfKey(_, _)
ValuesOfKey(fd, key) ==
    IF fd = <<>> THEN <<>>
    ELSE (IF Head(fd).key = key THEN <<Head(fd).value>> ELSE <<>>) \o ValuesOfKey(Tail(fd), key)

KeysOf(fd) == {fd[i].key : i \in 1..Len(fd)}

DistinctKeys(fd) == \A i, j \in 1..Len(fd) : fd[i].key = fd[j].key => i = j

\* what a first value decodes to under the empty-value policy, as the
\* specification states it
PolicyValue(value, policy) ==
    IF value.t = "string" /\ value.s = ""
    THEN CASE policy = "undefined" -> Undefined
           [] policy = "null" -> Null
           [] policy = "empty-string" -> Str("")
           [] OTHER -> value
    ELSE value

\* the value reached from v by following segs through own properties
RECURSIVE OwnAt(_, _)
OwnAt(v, segs) ==
    IF segs = <<>> THEN v
    ELSE IF v.t \in {"object", "array", "file"} /\ HasOwn(v.props, <<Head(segs)>>)
    THEN OwnAt(GetOwn(v.props, <<Head(segs)>>), Tail(segs))
    ELSE Missing

\* the same, every value passed on the way being a plain mapping
RECURSIVE MappingAt(_, _)
MappingAt(v, segs) ==
    IF segs = <<>> THEN v
    ELSE IF v.t = "object" /\ HasOwn(v.props, <<Head(segs)>>)
    THEN MappingAt(GetOwn(v.props, <<Head(segs)>>), Tail(segs))
    ELSE Missing

NonEmptyTextOrAttachment(v) == v.t = "file" \/ (v.t = "string" /\ v.s # "")

\* an object's own properties as a set of [k, v]
PropSet(v) == {v.props[i] : i \in 1..Len(v.props)}

(***************************************************************************)
(* C1.  decodeFormData: a key appended N > 1 times decodes to an array of  *)
(* exactly N elements, the key's values in append order (the first one     *)
(* being the value the empty-value policy stores for it).                  *)
(* Violated: a key naming an inherited property ("constructor") is "seen"  *)
(* before its first value, so the array starts with the inherited value.   *)
(***************************************************************************)
C1_RepeatedKeyIsArrayOfN ==
    (op = "decoded" /\ Returned(decoded)) =>
        \A key \in KeysOf(formData) :
            LET values == ValuesOfKey(formData, key)
                got == OwnAt(decoded, key)
            IN  Len(values) > 1 =>
                    /\ got.t = "array"
                    /\ Len(got.elems) = Len(values)
                    /\ got.elems[1] \in {values[1], PolicyValue(values[1], convertEmptyTo)}
                    /\ \A i \in 2..Len(values) : got.elems[i] = values[i]

(***************************************************************************)
(* C2.  decodeFormData: for distinct keys without '.', the result is the   *)
(* key-to-value mapping of the submission, an empty text value replaced    *)
(* per policy and an attachment never replaced.                            *)
(* Violated: the single key "constructor" decodes to an array.             *)
(***************************************************************************)
C2_FlatSubmissionIsMapping ==
    (op = "decoded" /\ DistinctKeys(formData)
       /\ \A key \in KeysOf(formData) : Len(key) = 1) =>
        /\ Returned(decoded)
        /\ PropSet(decoded) =
              {[k |-> formData[i].key, v |-> PolicyValue(formData[i].value, convertEmptyTo)] :
                 i \in 1..Len(formData)}

(***************************************************************************)
(* C3.  decodeFormData: for every key containing '.', the value collected  *)
(* for it is reached by following its segments through nested mappings of  *)
(* the result, and no top-level key of the result contains '.'.            *)
(* Violated: "constructor.a" walks into the process-wide Object function   *)
(* and leaves the result empty; a prefix collision loses a value.          *)
(***************************************************************************)
C3_DottedKeysNest ==
    (op = "decoded" /\ Returned(decoded)) =>
        /\ \A key \in PropNames(decoded.props) : Len(key) = 1
        /\ \A key \in KeysOf(formData) :
              Len(key) > 1 =>
                MappingAt(decoded, key)
                    = GetOwn(CollectEntries(formData, 1, Obj(<<>>), convertEmptyTo).props, key)

(***************************************************************************)
(* C4.  decodeFormData: when an intermediate segment of a dotted key holds *)
(* a non-empty text value or an attachment (keys "a" and "a.b", or "a.b"   *)
(* and "a.b.c"), that value is overwritten with a new mapping and the      *)
(* terminal key is assigned under it.                                      *)
(* Violated: a text value makes the call throw TypeError; an attachment    *)
(* is kept and gets the terminal key as a property.                        *)
(***************************************************************************)
C4_CollisionOverwrites ==
    (op = "decoded" /\ Len(formData) = 2) =>
        \A i, j \in 1..2 :
            LET ki == formData[i].key
                kj == formData[j].key
            IN  (/\ Len(kj) = Len(ki) + 1
                 /\ SubSeq(kj, 1, Len(ki)) = ki
                 /\ (Len(ki) > 1 => i < j)
                 /\ NonEmptyTextOrAttachment(formData[i].value)) =>
                    /\ Returned(decoded)
                    /\ MappingAt(decoded, ki)
                          = Obj(<<[k |-> <<kj[Len(kj)]>>,
                                   v |-> PolicyValue(formData[j].value, convertEmptyTo)]>>)

(***************************************************************************)
(* C5.  decodeFormData is total: it returns an object for every            *)
(* submission and policy and never raises an error.                        *)
(* Violated: keys "a" (text) and "a.b" end in TypeError.                   *)
(***************************************************************************)
C5_DecodeNeverThrows == op = "decoded" => Returned(decoded)

(***************************************************************************)
(* Vocabulary of the serializer's properties.                              *)
(***************************************************************************)
\* the values that are no plain mapping, found by descending through plain
\* mappings only, each with the '.'-join of the property names on its path
RECURSIVE JoinedLeaves(_, _)
JoinedLeaves(props, path) ==
    UNION {IF props[i].v.t = "object"
           THEN JoinedLeaves(props[i].v.props, path \o props[i].k)
           ELSE {[k |-> path \o props[i].k, v |-> props[i].v]}
           : i \in 1..Len(props)}

\* the same of the argument as given, in property order, under the key the
\* serializer forms
RECURSIVE RawLeaves(_, _)
RawLeaves(props, prefix) ==
    IF props = <<>> THEN <<>>
    ELSE LET path == PathOf(prefix, Head(props).k)
         IN  (IF Head(props).v.t \in {"object", "file"}
              THEN RawLeaves(Head(props).v.props, path)
              ELSE <<[k |-> path, v |-> Head(props).v]>>)
             \o RawLeaves(Tail(props), prefix)

Dropped(v) == v.t \in {"undefined", "function", "symbol"}

\* v without the properties, at any depth, that hold a mapping left empty
RECURSIVE PruneEmpty(_)
RECURSIVE PruneEmptyProps(_)
PruneEmpty(v) == IF v.t = "object" THEN Obj(PruneEmptyProps(v.props)) ELSE v

PruneEmptyProps(props) ==
    IF props = <<>> THEN <<>>
    ELSE LET v == PruneEmpty(Head(props).v)
         IN  (IF v = Obj(<<>>) THEN <<>> ELSE <<[k |-> Head(props).k, v |-> v]>>)
             \o PruneEmptyProps(Tail(props))

\* some mapping nested in props holds an empty mapping
RECURSIVE HasEmptyBelow(_)
HasEmptyBelow(props) ==
    \E i \in 1..Len(props) :
        /\ props[i].v.t = "object"
        /\ \/ \E j \in 1..Len(props[i].v.props) : props[i].v.props[j].v = Obj(<<>>)
           \/ HasEmptyBelow(props[i].v.props)

(***************************************************************************)
(* C6.  serializeFormData: every value that is no plain mapping (scalar,   *)
(* null or array, an array whole), found by descending through plain       *)
(* mappings, is in the output under the '.'-join of the property names on  *)
(* its path (where several paths join to one key, the key holds one of     *)
(* their values).                                                          *)
(* Violated: under a property named "" the join loses its leading '.':     *)
(* {"": {a: "x"}} gives {a: "x"}, not {".a": "x"}.                         *)
(***************************************************************************)
C6_LeavesUnderJoinedPath ==
    (op = "serialized" /\ serIn.t = "object") =>
        /\ serOut.t = "object"
        /\ LET leaves == JoinedLeaves(JsonCopy(serIn).props, <<>>)
           IN  \A l \in leaves :
                  /\ HasOwn(serOut.props, l.k)
                  /\ \E m \in leaves : m.k = l.k /\ GetOwn(serOut.props, l.k) = m.v

(***************************************************************************)
(* C7.  serializeFormData canonicalizes before flattening: a property      *)
(* whose value is undefined, a function or a symbol gives the output no    *)
(* key, a null value is kept as null and a date appears as its text form.  *)
(***************************************************************************)
C7_CanonicalizedBeforeFlattening ==
    (op = "serialized" /\ serIn.t = "object") =>
        LET kept == SelectSeq(RawLeaves(serIn.props, <<"">>), LAMBDA c : ~Dropped(c.v))
        IN  /\ serOut.t = "object"
            /\ PropNames(serOut.props) = {kept[i].k : i \in 1..Len(kept)}
            /\ \A i \in 1..Len(kept) :
                  (\A j \in (i + 1)..Len(kept) : kept[j].k # kept[i].k) =>
                      /\ kept[i].v = Null => GetOwn(serOut.props, kept[i].k) = Null
                      /\ kept[i].v.t = "date" =>
                            GetOwn(serOut.props, kept[i].k) = Str(kept[i].v.iso)

\* an argument with an undefined, a function, a symbol, a null or a date
\* property next to others has been serialized
C7_Witness ==
    /\ op = "serialized"
    /\ serIn.t = "object"
    /\ \E i, j, l \in 1..Len(serIn.props) :
          /\ Dropped(serIn.props[i].v)
          /\ serIn.props[j].v = Null
          /\ serIn.props[l].v.t = "date"
    /\ Len(serOut.props) = 2

(***************************************************************************)
(* C8.  serializeFormData of a plain mapping: no value of the output is a  *)
(* plain mapping (each is a scalar, null or an array), and an empty plain  *)
(* mapping at any depth contributes no key: the output is that of the      *)
(* argument with its empty mappings removed.                               *)
(***************************************************************************)
C8_NoMappingInOutput ==
    (op = "serialized" /\ serIn.t = "object") =>
        /\ serOut.t = "object"
        /\ \A p \in PropSet(serOut) : p.v.t \in {"string", "number", "boolean", "null", "array"}
        /\ serOut = serializeFormData(PruneEmpty(serIn))

\* an argument holding an empty mapping inside a nested mapping, and a value
\* that does reach the output, has been serialized
C8_Witness ==
    /\ op = "serialized"
    /\ serIn.t = "object"
    /\ HasEmptyBelow(serIn.props)
    /\ serOut.t = "object"
    /\ serOut.props # <<>>

(***************************************************************************)
(* C9.  Round trip: for a submission of text values under distinct keys,   *)
(* serializeFormData(decodeFormData(submission)) has the original field    *)
(* names as its keys (names with a leading or trailing '.' included), with *)
(* the decoded values, except the keys whose decoded value is undefined.   *)
(* Stated for field names that start with no inherited property name, to   *)
(* keep the defect of C1 and C2 out of it.                                 *)
(* Violated: ".a" comes back as "a".                                       *)
(***************************************************************************)
C9_RoundTripRestoresNames ==
    (/\ op = "echoed"
     /\ DistinctKeys(formData)
     /\ \A key \in KeysOf(formData) : <<key[1]>> # constructorName
     /\ \A i \in 1..Len(formData) : formData[i].value.t = "string") =>
        /\ serOut.t = "object"
        /\ PropSet(serOut) =
              {[k |-> formData[i].key, v |-> PolicyValue(formData[i].value, convertEmptyTo)] :
                 i \in {i \in 1..Len(formData) :
                          PolicyValue(formData[i].value, convertEmptyTo) # Undefined}}

(***************************************************************************)
(* Vocabulary of the aggregator's properties.                              *)
(***************************************************************************)
\* the messages of the issues whose path joins to key, in the order supplied
RECURSIVE MessagesAt(_, _)
MessagesAt(iss, key) ==
    IF iss = <<>> THEN <<>>
    ELSE (IF Head(iss).path # <<>> /\ JoinPath(Head(iss).path) = key
          THEN <<Head(iss).message>> ELSE <<>>)
         \o MessagesAt(Tail(iss), key)

JoinedKeys(iss) == {JoinPath(iss[i].path) : i \in {i \in 1..Len(iss) : iss[i].path # <<>>}}

(***************************************************************************)
(* C10.  serializeInvalidResult / aggregateIssuesByPath: for every issue   *)
(* list, the issues whose path joins with '.' to one key accumulate into   *)
(* one list at that key, their messages in the order supplied, duplicates  *)
(* kept.                                                                   *)
(* Violated: an issue at path ["constructor"] ends the call in TypeError.  *)
(***************************************************************************)
C10_IssuesAccumulateByPath ==
    op = "aggregated" =>
        /\ Returned(aggregated)
        /\ \A key \in JoinedKeys(issues) :
              GetOwn(aggregated.props, key) = Arr(MessagesAt(issues, key))

(***************************************************************************)
(* C11.  Field Error Map invariant: for every issue list, each key of the  *)
(* aggregated map is the joined path of at least one supplied issue with a *)
(* non-empty path, and maps to a list of at least one message; an issue    *)
(* with an empty path produces no key, so a field with no issue never      *)
(* appears.  (A call that ends in TypeError returns no map.)               *)
(***************************************************************************)
C11_FieldErrorMapInvariant ==
    (op = "aggregated" /\ Returned(aggregated)) =>
        \A key \in PropNames(aggregated.props) :
            /\ key \in JoinedKeys(issues)
            /\ GetOwn(aggregated.props, key).t = "array"
            /\ Len(GetOwn(aggregated.props, key).elems) >= 1

\* a map was returned for a list holding a form-level issue and a field issue
C11_Witness ==
    /\ op = "aggregated"
    /\ Returned(aggregated)
    /\ \E i, j \in 1..Len(issues) : issues[i].path = <<>> /\ issues[j].path # <<>>
    /\ PropNames(aggregated.props) # {}

(***************************************************************************)
(* getZodValidationAttributes: vocabulary of the claims.                   *)
(***************************************************************************)
IsSchema(node) == node.t = "schema"

\* the node a path addresses: each segment names an own child of an object
\* node; Missing when a segment names no child or the node has no children
RECURSIVE AddressedNode(_, _)
AddressedNode(node, path) ==
    IF path = <<>> THEN node
    ELSE IF IsSchema(node) /\ node.type = "object" /\ HasOwn(node.shape.props, Head(path))
    THEN AddressedNode(GetOwn(node.shape.props, Head(path)), Tail(path))
    ELSE Missing

\* a pipeline declared from text to boolean
TextToBoolean(node) ==
    /\ IsSchema(node) /\ node.type = "pipe"
    /\ IsSchema(node.in) /\ node.in.type = "string"
    /\ IsSchema(node.out) /\ node.out.type = "boolean"

\* modifiers and pipelines are walked through; anything else ends the walk
WalkedThrough(node) ==
    /\ IsSchema(node)
    /\ node.type \in {"optional", "nullable", "default", "pipe"}
    /\ ~TextToBoolean(node)

\* the leaf under a field: the node the walk through modifiers and pipeline
\* inputs ends at
RECURSIVE LeafUnder(_)
LeafUnder(node) ==
    IF ~WalkedThrough(node) THEN node
    ELSE IF node.type = "pipe" THEN LeafUnder(node.in)
    ELSE LeafUnder(node.innerType)

\* the walk from the node to its leaf passes an optional, nullable or default
RECURSIVE PassesModifier(_)
PassesModifier(node) ==
    IF ~WalkedThrough(node) THEN FALSE
    ELSE IF node.type = "pipe" THEN PassesModifier(node.in)
    ELSE TRUE

ResolvesToLeaf(schema, path) ==
    LET node == AddressedNode(schema, path)
    IN  node # Missing /\ IsSchema(LeafUnder(node)) /\ LeafUnder(node).type # "object"

Attr(result, name) ==
    IF HasOwn(result.attrs, <<name>>) THEN GetOwn(result.attrs, <<name>>) ELSE Missing

(***************************************************************************)
(* C12.  getZodValidationAttributes: for every schema tree and every path  *)
(* that resolves to a leaf, the constraint set contains required = true    *)
(* exactly when the walk from the addressed field to the leaf passes       *)
(* through no optional, nullable or default modifier; otherwise required   *)
(* is absent; and required is never false in any result.                   *)
(* Violated: a default around a pipeline is marked required.               *)
(***************************************************************************)
C12_RequiredUnlessModifier ==
    op = "attributes" =>
        /\ Attr(zResult, "required") \in {Missing, Bool(TRUE)}
        /\ ResolvesToLeaf(zSchema, zPath) =>
              (Attr(zResult, "required") = Bool(TRUE)
                  <=> ~PassesModifier(AddressedNode(zSchema, zPath)))

(***************************************************************************)
(* C13.  getZodValidationAttributes: a field whose schema node is a        *)
(* default-valued modifier is never marked required, whatever node the     *)
(* modifier wraps (a leaf, an optional or nullable modifier, another       *)
(* default, or a pipeline).                                                *)
(* Violated: for a default around a pipeline the function starts over on   *)
(* the pipeline's input, which sets required.                              *)
(***************************************************************************)
C13_DefaultNeverRequired ==
    op = "attributes" =>
        LET node == AddressedNode(zSchema, zPath)
        IN  (node # Missing /\ IsSchema(node) /\ node.type = "default")
                => Attr(zResult, "required") = Missing

\* the node a path addresses when modifiers and pipelines above an object
\* node are walked through as well; Missing when a segment names no child
\* of an object node or the path continues past a leaf
RECURSIVE ResolvedNode(_, _)
ResolvedNode(node, path) ==
    IF path = <<>> THEN node
    ELSE IF IsSchema(node) /\ node.type = "object"
    THEN IF HasOwn(node.shape.props, Head(path))
         THEN ResolvedNode(GetOwn(node.shape.props, Head(path)), Tail(path))
         ELSE Missing
    ELSE IF WalkedThrough(node)
    THEN ResolvedNode(IF node.type = "pipe" THEN node.in ELSE node.innerType, path)
    ELSE Missing

(***************************************************************************)
(* C14.  getZodValidationAttributes: for every path that does not resolve  *)
(* to a node of the schema tree (a segment names no child of an object     *)
(* node, or the path continues past a leaf), the result is leaf kind       *)
(* 'string' with an empty constraint set, and no error is raised.          *)
(* Stated for the paths without the inherited name 'constructor'.          *)
(* Violated: a path that continues past a leaf gets the leaf's own         *)
(* attributes.                                                             *)
(***************************************************************************)
C14_UnresolvedPathIsEmpty ==
    (/\ op = "attributes"
     /\ ResolvedNode(zSchema, zPath) = Missing
     /\ \A i \in 1..Len(zPath) : zPath[i] # constructorName) =>
        zResult = [type |-> "string", attrs |-> <<>>]

AttrSet(result) == {result.attrs[i] : i \in 1..Len(result.attrs)}

InferOn == Obj(<<[k |-> <<"inferTypeAttr">>, v |-> Bool(TRUE)]>>)
InferOff == Obj(<<[k |-> <<"inferTypeAttr">>, v |-> Bool(FALSE)]>>)

(***************************************************************************)
(* C15.  getZodValidationAttributes: the constraint set contains a 'type'  *)
(* entry only when inferTypeAttr is true; for the same schema and path,    *)
(* the results with the option on and off have the same leaf kind and the  *)
(* same constraints apart from 'type'.                                     *)
(***************************************************************************)
C15_TypeOnlyWhenInferred ==
    op = "attributes" =>
        LET on == getZodValidationAttributes(zSchema, zPath, InferOn)
            off == getZodValidationAttributes(zSchema, zPath, InferOff)
        IN  /\ Attr(zResult, "type") # Missing => InferTypeAttr(zOptions)
            /\ Attr(off, "type") = Missing
            /\ on.type = off.type
            /\ {a \in AttrSet(on) : a.k # <<"type">>} = AttrSet(off)

\* a result with a type hint that the check list decided, option on
C15_Witness ==
    /\ op = "attributes"
    /\ InferTypeAttr(zOptions)
    /\ Attr(zResult, "type") = Str("email")
    /\ Attr(zResult, "required") = Bool(TRUE)

\* the last check of a number leaf that sets a bound in a direction
LastBound(checks, direction) ==
    LET at == {i \in 1..Len(checks) : checks[i].check = direction}
    IN  IF at = {} THEN Missing
        ELSE checks[CHOOSE i \in at : \A j \in at : j <= i]

\* min or max as the claim gives it: v for an inclusive bound, v + offset
\* for an exclusive one
BoundAttr(checks, direction, offset) ==
    LET c == LastBound(checks, direction)
    IN  IF c = Missing THEN Missing
        ELSE IF c.inclusive THEN c.value
        ELSE Num(c.value.n + offset)

C17_CoercedPositiveNumber ==
    (/\ op = "attributes"
     /\ InferTypeAttr(zOptions)
     /\ AddressedNode(zSchema, zPath) =
            ZodNumber(TRUE, <<CheckDef("greater_than", "", Num(0), FALSE,
                                       Undefined, Undefined)>>)) =>
        /\ zResult.type = "number"
        /\ AttrSet(zResult) = {[k |-> <<"required">>, v |-> Bool(TRUE)],
                               [k |-> <<"type">>, v |-> Str("number")],
                               [k |-> <<"min">>, v |-> Num(0)]}

(***************************************************************************)
(* Wrapped action: vocabulary of the claims.                               *)
(***************************************************************************)
ValidationFailed == parsedData # Undefined /\ ~parsedData.success

\* outcome[name], for a returned result
Field(name) == Get(outcome, <<name>>)

(***************************************************************************)
(* C18.  Wrapped action (ActionClient.action / actionWithParam): when      *)
(* schema validation of the decoded submission fails, the user handler is  *)
(* never invoked and the call returns, without throwing, a result with     *)
(* success = false, invalid set to the field errors, and data and error    *)
(* undefined.                                                              *)
(***************************************************************************)
C18_ValidationFailureReturnsInvalid ==
    ValidationFailed =>
        /\ op = "returned"
        /\ fnCalls = <<>>
        /\ outcome.t = "object"
        /\ Field("success") = Bool(FALSE)
        /\ Field("invalid").t = "object"
        /\ \A i \in 1..Len(parsedData.error.issues) :
              LET issue == parsedData.error.issues[i]
              IN  issue.path # <<>> =>
                    \E key \in PropNames(Field("invalid").props) :
                       \E j \in 1..Len(GetOwn(Field("invalid").props, key).elems) :
                          GetOwn(Field("invalid").props, key).elems[j] = issue.message
        /\ Field("data") = Undefined
        /\ Field("error") = Undefined

\* a failed validation with a field issue has returned its result
C18_Witness ==
    /\ ValidationFailed
    /\ op = "returned"
    /\ \E i \in 1..Len(parsedData.error.issues) : parsedData.error.issues[i].path # <<>>
    /\ PropNames(Field("invalid").props) # {}

(***************************************************************************)
(* C19.  Wrapped action on validation failure: the invalid map of the      *)
(* result is keyed by the dot-path of each failing field (an issue at      *)
(* path [nested, nestedproperty] appears under 'nested.nestedproperty'),   *)
(* i.e. it equals the Issue Aggregator's output for the validator's        *)
(* issues.                                                                 *)
(* Violated: the wrapper lists an issue under the first element of its     *)
(* path.                                                                   *)
(***************************************************************************)
C19_InvalidKeyedByDotPath ==
    (ValidationFailed /\ op = "returned") =>
        PropSet(Field("invalid")) =
            PropSet(aggregateIssuesByPath(parsedData.error.issues))

(***************************************************************************)
(* C20.  Wrapped action: every result it returns (success, validation      *)
(* failure, handler-returned invalid or error, caught handler exception)   *)
(* carries formData equal to the serialization of the decoded submission   *)
(* (the Serializer's flattened object), even when the handler's returned   *)
(* object has its own formData property.                                   *)
(* Violated: the wrapper echoes the JSON copy of the decoded object, which *)
(* keeps the nesting.                                                      *)
(***************************************************************************)
C20_ResultCarriesSerializedFormData ==
    op = "returned" => Field("formData") = serializeFormData(decoded)

\* fn ran and threw
HandlerThrew == op \in {"returned", "thrown"} /\ fnResult.kind = "thrown"

\* the framework's navigation signals
NavigationSignal(e) == e.t = "error" /\ e.message \in {"NEXT_REDIRECT", "NEXT_NOT_FOUND"}

\* the handleExceptionsAsFormErrors option as given, Missing when it is not
GivenOption(options) ==
    IF options.t = "object" /\ HasOwn(options.props, <<"handleExceptionsAsFormErrors">>)
    THEN GetOwn(options.props, <<"handleExceptionsAsFormErrors">>)
    ELSE Missing

\* the handleExceptionsAsFormErrors in effect for the call: the per-action
\* option when given, else the client's, else true
InEffect ==
    IF GivenOption(call.options) # Missing THEN GivenOption(call.options) = Bool(TRUE)
    ELSE IF GivenOption(call.clientOptions) # Missing
    THEN GivenOption(call.clientOptions) = Bool(TRUE)
    ELSE TRUE

(***************************************************************************)
(* C21.  Wrapped action, handler throws: an Error whose message is         *)
(* 'NEXT_REDIRECT' or 'NEXT_NOT_FOUND' is always re-thrown, whatever       *)
(* handleExceptionsAsFormErrors is; any other thrown value is returned as  *)
(* an error result (success = false, error = its message) when             *)
(* handleExceptionsAsFormErrors is in effect and re-thrown when it is not. *)
(* Violated: a thrown value with no JSON text (undefined) is returned      *)
(* with error undefined.                                                   *)
(***************************************************************************)
C21_ThrownValueHandling ==
    HandlerThrew =>
        LET e == fnResult.value
        IN  IF NavigationSignal(e) \/ ~InEffect
            THEN op = "thrown" /\ outcome = Throw(e)
            ELSE /\ op = "returned"
                 /\ Field("success") = Bool(FALSE)
                 /\ Field("error").t = "string"
                 /\ e.t = "error" => Field("error") = Str(e.message)
                 /\ e.t = "string" => Field("error") = e

\* fn ran and resolved to a value that is neither an invalid result nor an
\* error result
HandlerReturnedPayload ==
    /\ op = "returned"
    /\ fnResult.kind = "returned"
    /\ ~isInvalidActionResult(fnResult.value)
    /\ ~isErrorActionResult(fnResult.value)

\* the payload of what fn resolved to: the data of a success(data) object,
\* else the value itself
PayloadOf(actionResponse) ==
    IF /\ actionResponse.t = "object"
       /\ GetOwn(actionResponse.props, <<"success">>) = Bool(TRUE)
       /\ HasOwn(actionResponse.props, <<"data">>)
    THEN GetOwn(actionResponse.props, <<"data">>)
    ELSE actionResponse

(***************************************************************************)
(* C22.  Wrapped action: when validation succeeds and the handler returns  *)
(* any value that is not an invalid or error result (an arbitrary object,  *)
(* or nothing at all), the wrapper returns a success ActionResult:         *)
(* success = true, data holds the payload, invalid and error undefined.    *)
(* Violated: the wrapper spreads the returned value into the result and    *)
(* sets neither success nor data.                                          *)
(***************************************************************************)
C22_PayloadWrappedAsSuccess ==
    HandlerReturnedPayload =>
        /\ Field("success") = Bool(TRUE)
        /\ Field("data") = PayloadOf(fnResult.value)
        /\ Field("invalid") = Undefined
        /\ Field("error") = Undefined

\* the process-wide objects as they are before any decode
PristineHeap == [c \in CtorNames |-> <<>>]

(***************************************************************************)
(* C23.  decodeFormData touches no state outside its own result, whatever  *)
(* the keys of the submission (including keys like 'constructor.x'): the   *)
(* process-wide state is the same after the call as before it, so decodes  *)
(* made one after another each return what they return alone.              *)
(* Violated: a key whose first segment is 'constructor' writes a property  *)
(* on the shared constructor function.                                     *)
(***************************************************************************)
C23_DecodeIsIsolated ==
    op = "decoded" =>
        /\ heap = PristineHeap
        /\ decoded = decodeFormData(formData, convertEmptyTo, PristineHeap).value

\* the constraints of a result other than required
OtherThanRequired(result) == {a \in AttrSet(result) : a.k # <<"required">>}

(***************************************************************************)
(* C24.  getZodValidationAttributes: for a default modifier wrapping any   *)
(* inner node (for example an optional wrapping a string with minimum      *)
(* length 3), the leaf kind and the constraints other than required are    *)
(* those obtained by recursing into the inner node; the inner node's       *)
(* checks are not lost.                                                    *)
(* Violated: the inner node of a default is not recursed into, so a        *)
(* modifier directly under a default hides the leaf.                       *)
(***************************************************************************)
C24_DefaultKeepsInnerConstraints ==
    op = "attributes" =>
        LET node == AddressedNode(zSchema, zPath)
        IN  (node # Missing /\ IsSchema(node) /\ node.type = "default") =>
                LET inner == getZodValidationAttributes(node.innerType, <<>>, zOptions)
                IN  /\ zResult.type = inner.type
                    /\ OtherThanRequired(zResult) = OtherThanRequired(inner)

(***************************************************************************)
(* C25.  getZodValidationAttributes: a field whose leaf is a pipeline with *)
(* declared input text and declared output boolean yields leaf kind        *)
(* 'boolean', the hint type = 'checkbox' when inferTypeAttr is on and no   *)
(* hint when it is off, and none of the text side's length or format       *)
(* constraints; it is required unless the pipeline is enclosed in an       *)
(* optional, nullable or default modifier.                                 *)
(* Violated: under a default that wraps another modifier the pipeline is   *)
(* not reached (C24), and under a default that wraps a transform of the    *)
(* pipeline the field is marked required (C13).                            *)
(***************************************************************************)
C25_TextToBooleanPipeline ==
    op = "attributes" =>
        LET node == AddressedNode(zSchema, zPath)
        IN  (node # Missing /\ TextToBoolean(LeafUnder(node))) =>
                /\ zResult.type = "boolean"
                /\ Attr(zResult, "type") =
                      (IF InferTypeAttr(zOptions) THEN Str("checkbox") ELSE Missing)
                /\ \A a \in AttrSet(zResult) : a.k \in {<<"type">>, <<"required">>}
                /\ Attr(zResult, "required") =
                      (IF PassesModifier(node) THEN Missing ELSE Bool(TRUE))

\* the fields among data, invalid and error that a returned result defines
DefinedFields == {name \in {"data", "invalid", "error"} : Field(name) # Undefined}

\* fn resolved to an object that is both an invalid result and an error
\* result
HandlerReturnedInvalidAndError ==
    /\ op = "returned"
    /\ fnResult.kind = "returned"
    /\ isInvalidActionResult(fnResult.value)
    /\ isErrorActionResult(fnResult.value)

C27_PerActionOptionOverrides ==
    /\ op # "idle" /\ call # Undefined =>
          client.handleExceptionsAsFormErrors =
              (IF GivenOption(call.clientOptions) # Missing
               THEN GivenOption(call.clientOptions) ELSE Bool(TRUE))
    /\ (HandlerThrew /\ ~NavigationSignal(fnResult.value)) =>
          (op = "returned" <=> InEffect)

\* the client says true, the action says false, and the thrown value is
\* re-thrown
C27_Witness ==
    /\ HandlerThrew
    /\ fnResult.value = ErrorOf("boom")
    /\ GivenOption(call.clientOptions) = Bool(TRUE)
    /\ GivenOption(call.options) = Bool(FALSE)
    /\ op = "thrown"

\* the wrapper that was not called
OtherWrapper == IF call.wrapper = "action" THEN "actionWithParam" ELSE "action"

\* what a wrapper of the same client gives for the submission, the
\* validation result and the handler behaviour of the call: a result, or
\* the exception it throws
OutcomeOf(wrapper) ==
    LET d == decodeFormData(formData, PolicyOf(client, wrapper), heap).value
    IN  IF d.t = "thrown" THEN d
        ELSE IF ~parsedData.success THEN OnInvalid(wrapper, serialize(d), parsedData)
        ELSE IF fnResult.kind = "returned"
        THEN OnResponse(wrapper, serialize(d), fnResult.value)
        ELSE OnThrow(wrapper, call.options, client, serialize(d), fnResult.value)

EqualPolicies == client.actionConvertEmptyTo = client.actionWithParamConvertEmptyTo

(***************************************************************************)
(* C28.  action and actionWithParam of one ActionClient are equivalent:    *)
(* with equal empty-value policies, for the same schema, submission and    *)
(* handler behaviour they return the same result or throw the same         *)
(* exception; actionWithParam differs only in passing param to the         *)
(* handler; each decodes with its own policy.                              *)
(***************************************************************************)
C28_WrappersEquivalent ==
    op \in {"returned", "thrown"} =>
        /\ convertEmptyTo = (IF call.wrapper = "action" THEN client.actionConvertEmptyTo.s
                             ELSE client.actionWithParamConvertEmptyTo.s)
        /\ EqualPolicies => outcome = OutcomeOf(OtherWrapper)
        /\ \A i \in 1..Len(fnCalls) :
              /\ fnCalls[i].data = parsedData.data
              /\ fnCalls[i].formData = formData
              /\ fnCalls[i].param =
                    (IF call.wrapper = "actionWithParam" THEN Str("p") ELSE Undefined)

\* actionWithParam returned an invalid result for a handler object that is
\* an invalid result and an error result at once, on a client with the
\* policy 'null' for both wrappers and a submission with an empty value
C28_Witness ==
    /\ op = "returned"
    /\ call.wrapper = "actionWithParam"
    /\ EqualPolicies
    /\ convertEmptyTo = "null"
    /\ \E i \in 1..Len(formData) : formData[i].value = Str("")
    /\ isInvalidActionResult(fnResult.value)
    /\ isErrorActionResult(fnResult.value)
    /\ isInvalidActionResult(outcome)

EmptyText(v) == v = Str("")

(***************************************************************************)
(* C29.  decodeFormData applies the empty-value policy only to the first   *)
(* occurrence of a key: for a repeated key, a zero-length first value is   *)
(* stored as the policy's replacement, and zero-length values at the       *)
(* second and later occurrences are appended unchanged as ''.              *)
(* Violated: for a key naming an inherited property ("constructor") the    *)
(* first occurrence is taken for a repetition (C1) and its zero-length     *)
(* value is appended unchanged.                                            *)
(***************************************************************************)
C29_PolicyOnFirstOccurrenceOnly ==
    (op = "decoded" /\ Returned(decoded)) =>
        \A key \in KeysOf(formData) :
            LET values == ValuesOfKey(formData, key)
                got == OwnAt(decoded, key)
            IN  Len(values) > 1 =>
                    /\ got.t = "array"
                    /\ Len(got.elems) = Len(values)
                    /\ EmptyText(values[1]) =>
                          got.elems[1] = EmptyReplacement(values[1], convertEmptyTo)
                    /\ \A i \in 2..Len(values) :
                          EmptyText(values[i]) => got.elems[i] = Str("")

(***************************************************************************)
(* C30.  serializeFormData is idempotent: for every JSON-representable x,  *)
(* serializeFormData(serializeFormData(x)) = serializeFormData(x).         *)
(* Stated for every argument the function returns a result for.            *)
(***************************************************************************)
C30_SerializeIdempotent ==
    (op = "serialized" /\ Returned(serOut)) => serializeFormData(serOut) = serOut

\* a mapping with a non-empty nested mapping has been serialized to a
\* mapping with a joined name, which differs from the argument
C30_Witness ==
    /\ op = "serialized"
    /\ serIn.t = "object"
    /\ serOut.t = "object"
    /\ serOut # serIn
    /\ \E i \in 1..Len(serIn.props) :
          serIn.props[i].v.t = "object" /\ serIn.props[i].v.props # <<>>
    /\ \E j \in 1..Len(serOut.props) : Len(serOut.props[j].k) > 1

====
